---- MODULE Spec2Model ----
(***************************************************************************)
(* Joykado: joystick_to_keyboard.py.  A polling loop reads controller      *)
(* events (hat, axis, button, quit) and turns them into key press and      *)
(* release calls on a key injector (pynput, or the xdotool command when    *)
(* pynput cannot be imported), tracking the held keys in pressed_keys.     *)
(*                                                                         *)
(* Axis values are floats in [-1.0, 1.0] in the program; the model counts  *)
(* them in tenths, so 0.3 is 3 and -1.0 is -10.                            *)
(***************************************************************************)
EXTENDS Integers, Sequences, FiniteSets, TLC

\* ------------------------------------------------------------- bounds
\* pygame.event.get() returns at most this many events in one poll.
MaxBatch == 2
\* Axis indices 0..MaxAxis are reported by the device (0 and 1 are mapped).
MaxAxis == 2
\* Button indices 0..MaxButton are reported by the device (0..5 are mapped).
MaxButton == 6

\* ---------------------------------------------------------- constants
DirKeys == {"w", "s", "a", "d"}

\* for key in ['w', 's', 'a', 'd'] in process_hat
HatReleaseOrder == <<"w", "s", "a", "d">>

\* DPAD_MAPPING / the key names used by process_hat and process_axis
Up == "w"
Down == "s"
Left == "a"
Right == "d"
Confirm == "enter"

\* The mapping with buttons 0 and 1 swapped.
BUTTON_MAPPING_swapped ==
    [b \in 0..5 |-> CASE b = 0 -> "s"
                      [] b = 1 -> "w"
                      [] b = 2 -> "a"
                      [] b = 3 -> "d"
                      [] b = 4 -> "enter"
                      [] b = 5 -> "enter"]

\* BUTTON_MAPPING
BUTTON_MAPPING ==
    [b \in 0..5 |-> CASE b = 0 -> "w"
                      [] b = 1 -> "s"
                      [] b = 2 -> "a"
                      [] b = 3 -> "d"
                      [] b = 4 -> "enter"
                      [] b = 5 -> "enter"]

\* deadzone = 0.3, in tenths
deadzone == 3

\* Representative axis readings, in tenths: full deflection, beyond the
\* deadzone, exactly on the deadzone, inside it, and centre.
AxisValues == {-10, -5, -3, -2, 0, 2, 3, 5, 10}

HatValues == {-1, 0, 1}

VARIABLES
    USE_PYNPUT,    \* TRUE: pynput imported; FALSE: xdotool fallback
    pressed_keys,  \* the module-level set pressed_keys
    running,       \* main's local flag
    pc,            \* where main is
    batch,         \* events of the current poll still to be handled
    ev,            \* the event (or shutdown step) handled by the last step
    out,           \* injector calls issued by the last step, in order
    emitted,       \* keys whose last issued injector call is a press
    left_by        \* how the while loop was left

vars == <<USE_PYNPUT, pressed_keys, running, pc, batch, ev, out, emitted, left_by>>

\* ------------------------------------------------------------ injector
\* The OS-level key a press call names.
PressOsKey(pynput, key) ==
    IF pynput
    THEN CASE key = "w" -> "Key.up"
           [] key = "s" -> "Key.down"
           [] key = "a" -> "Key.left"
           [] key = "d" -> "Key.right"
           [] key = "enter" -> "Key.enter"
           [] OTHER -> key
    ELSE key

\* The OS-level key a release call names.
ReleaseOsKey(pynput, key) ==
    IF pynput
    THEN CASE key = "w" -> "Key.up"
           [] key = "s" -> "Key.down"
           [] key = "a" -> "Key.left"
           [] key = "d" -> "Key.right"
           [] key = "enter" -> "Key.enter"
           [] OTHER -> key
    ELSE IF key = "enter" THEN "Return" ELSE key

\* What one injector call can do.  pynput: the call works, or raises an
\* Exception that press_key/release_key catch and print.  xdotool: the
\* command works, exits non-zero (subprocess.run without check: ignored),
\* or cannot be started, and subprocess.run raises OSError to the caller.
CallResults(pynput) ==
    IF pynput THEN {"ok", "caught"} ELSE {"ok", "nonzero", "oserror"}

\* The state the key functions work on: pk is pressed_keys, calls the
\* injector calls issued so far by this step, em the keys whose last issued
\* call is a press, st "ok" or "raised" (an exception is propagating).
Start(pk, em) == [pk |-> pk, calls |-> <<>>, em |-> em, st |-> "ok"]

\* One call to the injector with result r.
Inject(pynput, s, act, key, r) ==
    [s EXCEPT
       !.calls = Append(@, [act |-> act, key |-> key,
                            os |-> IF act = "press"
                                   THEN PressOsKey(pynput, key)
                                   ELSE ReleaseOsKey(pynput, key),
                            res |-> r,
                            logged |-> (r = "caught")]),
       !.em = IF act = "press" THEN @ \cup {key} ELSE @ \ {key},
       !.st = IF r = "oserror" THEN "raised" ELSE "ok"]

\* press_key without pressed_keys.add(key).
press_key_no_add(pynput, s, key) ==
    IF s.st # "ok" THEN {s}
    ELSE IF key # "enter" /\ key \in s.pk THEN {s}
    ELSE {Inject(pynput, s, "press", key, r) : r \in CallResults(pynput)}

\* press_key without the "already pressed" early return.
press_key_no_guard(pynput, s, key) ==
    IF s.st # "ok" THEN {s}
    ELSE LET s1 == [s EXCEPT !.pk = IF key # "enter" THEN @ \cup {key} ELSE @]
         IN  {Inject(pynput, s1, "press", key, r) : r \in CallResults(pynput)}

\* press_key(key): the set of states it can end in.
press_key(pynput, s, key) ==
    IF s.st # "ok" THEN {s}
    ELSE IF key # "enter" /\ key \in s.pk THEN {s}
    ELSE LET s1 == [s EXCEPT !.pk = IF key # "enter" THEN @ \cup {key} ELSE @]
         IN  {Inject(pynput, s1, "press", key, r) : r \in CallResults(pynput)}

\* release_key without the "not pressed" early return.
release_key_no_guard(pynput, s, key) ==
    IF s.st # "ok" THEN {s}
    ELSE LET s1 == [s EXCEPT !.pk = @ \ {key}]
         IN  {Inject(pynput, s1, "release", key, r) : r \in CallResults(pynput)}

\* release_key(key): the set of states it can end in.
release_key(pynput, s, key) ==
    IF s.st # "ok" THEN {s}
    ELSE IF key = "enter"
    THEN {Inject(pynput, s, "release", key, r) : r \in CallResults(pynput)}
    ELSE IF key \notin s.pk THEN {s}
    ELSE LET s1 == [s EXCEPT !.pk = @ \ {key}]
         IN  {Inject(pynput, s1, "release", key, r) : r \in CallResults(pynput)}

\* Statement sequencing over the possible states.
ThenPress(pynput, S, key) == UNION {press_key(pynput, s, key) : s \in S}
ThenRelease(pynput, S, key) == UNION {release_key(pynput, s, key) : s \in S}

\* release_key on each key of the sequence ks, in order.
RECURSIVE ReleaseEach(_, _, _)
ReleaseEach(pynput, S, ks) ==
    IF ks = <<>> THEN S
    ELSE ReleaseEach(pynput, ThenRelease(pynput, S, Head(ks)), Tail(ks))

\* ---------------------------------------------------------- translators
\* process_hat without the "release all keys first" loop.
process_hat_no_reset(pynput, s, x, y) ==
    LET vert == IF y = 1 THEN press_key(pynput, s, "w")
                ELSE IF y = -1 THEN press_key(pynput, s, "s")
                ELSE {s}
    IN  IF x = -1 THEN ThenPress(pynput, vert, "a")
        ELSE IF x = 1 THEN ThenPress(pynput, vert, "d")
        ELSE vert

\* process_hat releasing only the keys the new position does not indicate.
process_hat_keep_indicated(pynput, s, x, y) ==
    LET keep  == (IF y = 1 THEN {"w"} ELSE IF y = -1 THEN {"s"} ELSE {})
                 \cup (IF x = -1 THEN {"a"} ELSE IF x = 1 THEN {"d"} ELSE {})
        reset == ReleaseEach(pynput, {s},
                             SelectSeq(HatReleaseOrder, LAMBDA k : k \notin keep))
        vert  == IF y = 1 THEN ThenPress(pynput, reset, "w")
                 ELSE IF y = -1 THEN ThenPress(pynput, reset, "s")
                 ELSE reset
    IN  IF x = -1 THEN ThenPress(pynput, vert, "a")
        ELSE IF x = 1 THEN ThenPress(pynput, vert, "d")
        ELSE vert

\* process_hat(hat_value) with hat_value = (x, y).
process_hat(pynput, s, x, y) ==
    LET reset == ReleaseEach(pynput, {s}, HatReleaseOrder)
        vert  == IF y = 1 THEN ThenPress(pynput, reset, "w")
                 ELSE IF y = -1 THEN ThenPress(pynput, reset, "s")
                 ELSE reset
    IN  IF x = -1 THEN ThenPress(pynput, vert, "a")
        ELSE IF x = 1 THEN ThenPress(pynput, vert, "d")
        ELSE vert

Abs(n) == IF n < 0 THEN -n ELSE n

\* The channel branch without the release of the opposite key.
AxisChannel_no_release(pynput, s, value, neg, pos) ==
    IF value < -deadzone
    THEN press_key(pynput, s, neg)
    ELSE IF value > deadzone
    THEN press_key(pynput, s, pos)
    ELSE ThenRelease(pynput, release_key(pynput, s, neg), pos)

\* The channel branch with the deadzone boundary counted as deflection.
AxisChannel_inclusive(pynput, s, value, neg, pos) ==
    IF value <= -deadzone
    THEN ThenRelease(pynput, press_key(pynput, s, neg), pos)
    ELSE IF value >= deadzone
    THEN ThenRelease(pynput, press_key(pynput, s, pos), neg)
    ELSE ThenRelease(pynput, release_key(pynput, s, neg), pos)

\* The channel branch releasing the opposite key before pressing.
AxisChannel_release_first(pynput, s, value, neg, pos) ==
    IF value < -deadzone
    THEN ThenPress(pynput, release_key(pynput, s, pos), neg)
    ELSE IF value > deadzone
    THEN ThenPress(pynput, release_key(pynput, s, neg), pos)
    ELSE ThenRelease(pynput, release_key(pynput, s, neg), pos)

\* The branch of process_axis for one channel: neg is the key of the
\* negative direction, pos the key of the positive one.
AxisChannel(pynput, s, value, neg, pos) ==
    IF value < -deadzone
    THEN ThenRelease(pynput, press_key(pynput, s, neg), pos)
    ELSE IF value > deadzone
    THEN ThenRelease(pynput, press_key(pynput, s, pos), neg)
    ELSE ThenRelease(pynput, release_key(pynput, s, neg), pos)

\* process_axis with a plain else for the horizontal axis: every axis
\* other than 1 drives Left/Right.
process_axis_else(pynput, s, axis, value) ==
    LET v == IF Abs(value) < deadzone THEN 0 ELSE value
    IN  IF axis = 1 THEN AxisChannel(pynput, s, v, "w", "s")
        ELSE AxisChannel(pynput, s, v, "a", "d")

\* process_axis(axis, value).
process_axis(pynput, s, axis, value) ==
    LET v == IF Abs(value) < deadzone THEN 0 ELSE value
    IN  IF axis = 1 THEN AxisChannel(pynput, s, v, "w", "s")
        ELSE IF axis = 0 THEN AxisChannel(pynput, s, v, "a", "d")
        ELSE {s}

\* process_button treating 'enter' like a directional key: pressed on
\* button-down, released on button-up.
process_button_hold_enter(pynput, s, button, pressed) ==
    IF button \in DOMAIN BUTTON_MAPPING
    THEN LET key == BUTTON_MAPPING[button]
         IN  IF pressed
             THEN press_key(pynput, s, key)
             ELSE release_key(pynput, s, key)
    ELSE {s}

\* process_button(button, pressed).
process_button(pynput, s, button, pressed) ==
    IF button \in DOMAIN BUTTON_MAPPING
    THEN LET key == BUTTON_MAPPING[button]
         IN  IF pressed
             THEN IF key = "enter"
                  THEN ThenRelease(pynput, press_key(pynput, s, "enter"), "enter")
                  ELSE press_key(pynput, s, key)
             ELSE IF key # "enter"
                  THEN release_key(pynput, s, key)
                  ELSE {s}
    ELSE {s}

\* The orders in which "for key in list(pressed_keys)" can visit the set.
Orders(S) ==
    {q \in [1..Cardinality(S) -> S] :
        \A i, j \in DOMAIN q : q[i] = q[j] => i = j}

\* The drain stopping one key short of the snapshot.
drain_one_short(pynput, s, order) ==
    ReleaseEach(pynput, {s},
                IF order = <<>> THEN order ELSE SubSeq(order, 1, Len(order) - 1))

\* The finally block's loop: release_key on every key of a snapshot of
\* pressed_keys, in the snapshot's order.
drain(pynput, s, order) == ReleaseEach(pynput, {s}, order)

\* ------------------------------------------------------------ main loop
Event(type, a, b) == [type |-> type, a |-> a, b |-> b]
NoEvent == Event("NONE", 0, 0)

Init ==
    /\ USE_PYNPUT \in BOOLEAN
    /\ pressed_keys = {}
    /\ running = TRUE
    /\ pc = "poll"
    /\ batch = 0
    /\ ev = NoEvent
    /\ out = <<>>
    /\ emitted = {}
    /\ left_by = "none"

\* while running: for event in pygame.event.get(): ...; clock.tick(60)
Poll ==
    /\ pc = "poll"
    /\ running
    /\ \E n \in 0..MaxBatch :
          /\ batch' = n
          /\ pc' = IF n = 0 THEN "poll" ELSE "events"
    /\ ev' = NoEvent
    /\ out' = <<>>
    /\ UNCHANGED <<USE_PYNPUT, pressed_keys, running, emitted, left_by>>

\* The end of one pass of the for loop over a translator call that ended
\* in state s: the next event, the next poll, or the exception leaving
\* the loop for the finally block.
Handled(e, s) ==
    /\ pressed_keys' = s.pk
    /\ out' = s.calls
    /\ emitted' = s.em
    /\ ev' = e
    /\ batch' = batch - 1
    /\ IF s.st = "raised"
       THEN pc' = "finally" /\ left_by' = "error"
       ELSE /\ pc' = IF batch = 1 THEN "poll" ELSE "events"
            /\ left_by' = left_by
    /\ UNCHANGED <<USE_PYNPUT, running>>

Cur == Start(pressed_keys, emitted)

\* event.type == pygame.QUIT
HandleQuit ==
    /\ pc = "events"
    /\ running' = FALSE
    /\ ev' = Event("QUIT", 0, 0)
    /\ out' = <<>>
    /\ batch' = batch - 1
    /\ pc' = IF batch = 1 THEN "poll" ELSE "events"
    /\ UNCHANGED <<USE_PYNPUT, pressed_keys, emitted, left_by>>

\* event.type == pygame.JOYHATMOTION
HandleHat ==
    /\ pc = "events"
    /\ \E x \in HatValues, y \in HatValues :
          \E s \in process_hat(USE_PYNPUT, Cur, x, y) :
             Handled(Event("JOYHATMOTION", x, y), s)

\* event.type == pygame.JOYAXISMOTION
HandleAxis ==
    /\ pc = "events"
    /\ \E axis \in 0..MaxAxis, value \in AxisValues :
          \E s \in process_axis(USE_PYNPUT, Cur, axis, value) :
             Handled(Event("JOYAXISMOTION", axis, value), s)

\* event.type == pygame.JOYBUTTONDOWN
HandleButtonDown ==
    /\ pc = "events"
    /\ \E button \in 0..MaxButton :
          \E s \in process_button(USE_PYNPUT, Cur, button, TRUE) :
             Handled(Event("JOYBUTTONDOWN", button, 0), s)

\* event.type == pygame.JOYBUTTONUP
HandleButtonUp ==
    /\ pc = "events"
    /\ \E button \in 0..MaxButton :
          \E s \in process_button(USE_PYNPUT, Cur, button, FALSE) :
             Handled(Event("JOYBUTTONUP", button, 0), s)

\* The while condition is false after a QUIT event.
ExitLoop ==
    /\ pc = "poll"
    /\ ~running
    /\ pc' = "finally"
    /\ left_by' = "quit"
    /\ ev' = NoEvent
    /\ out' = <<>>
    /\ UNCHANGED <<USE_PYNPUT, pressed_keys, running, batch, emitted>>

\* Ctrl+C while the loop is between two translator calls (in
\* pygame.event.get or clock.tick): except KeyboardInterrupt, then finally.
Interrupt ==
    /\ pc \in {"poll", "events"}
    /\ pc' = "finally"
    /\ left_by' = "interrupt"
    /\ ev' = NoEvent
    /\ out' = <<>>
    /\ UNCHANGED <<USE_PYNPUT, pressed_keys, running, batch, emitted>>

\* finally: for key in list(pressed_keys): release_key(key)
Drain ==
    /\ pc = "finally"
    /\ \E order \in Orders(pressed_keys) :
          \E s \in drain(USE_PYNPUT, Cur, order) :
             /\ pressed_keys' = s.pk
             /\ out' = s.calls
             /\ emitted' = s.em
             /\ pc' = IF s.st = "raised" THEN "crashed" ELSE "quit"
    /\ ev' = Event("DRAIN", 0, 0)
    /\ UNCHANGED <<USE_PYNPUT, running, batch, left_by>>

\* pygame.quit() and the last print, after the drain.
PygameQuit ==
    /\ pc = "quit"
    /\ pc' = "stopped"
    /\ ev' = NoEvent
    /\ out' = <<>>
    /\ UNCHANGED <<USE_PYNPUT, pressed_keys, running, batch, emitted, left_by>>

Next ==
    \/ Poll
    \/ HandleQuit
    \/ HandleHat
    \/ HandleAxis
    \/ HandleButtonDown
    \/ HandleButtonUp
    \/ ExitLoop
    \/ Interrupt
    \/ Drain
    \/ PygameQuit

Spec == Init /\ [][Next]_vars

TypeOK ==
    /\ USE_PYNPUT \in BOOLEAN
    /\ pressed_keys \subseteq DirKeys
    /\ running \in BOOLEAN
    /\ pc \in {"poll", "events", "finally", "quit", "stopped", "crashed"}
    /\ batch \in 0..MaxBatch
    /\ emitted \subseteq DirKeys \cup {"enter"}
    /\ left_by \in {"none", "quit", "interrupt", "error"}

\* ------------------------------------------------------------- helpers
\* The step just taken was a translator call that returned normally.
Returned == pc \in {"poll", "events"}

\* The number of calls in the sequence cs that satisfy Test.
RECURSIVE Count(_, _, _)
Count(cs, act, key) ==
    IF cs = <<>> THEN 0
    ELSE (IF Head(cs).act = act /\ Head(cs).key = key THEN 1 ELSE 0)
         + Count(Tail(cs), act, key)

\* The (act, key) pairs of a sequence of calls.
Shape(cs) == [i \in DOMAIN cs |-> <<cs[i].act, cs[i].key>>]

\* ------------------------------------------------------------------ C1
\* C1: in every reachable state a directional key is in pressed_keys if and
\* only if the last injector call issued for it was a press (no release
\* call has followed it).
C1_KeyStateMatchesEmitted ==
    \A k \in DirKeys : k \in pressed_keys <=> k \in emitted

\* A button release has acted while another key is still held.
C1_Witness ==
    /\ ev.type = "JOYBUTTONUP"
    /\ Len(out) = 1
    /\ out[1].act = "release"
    /\ pressed_keys # {}
    /\ emitted = pressed_keys

\* ------------------------------------------------------------------ C2
\* C2 as stated: from every prior state, two consecutive press_key(k) calls
\* issue exactly one injector press call, the second changing nothing, and
\* release_key(k) on a key not held issues no call and changes nothing.
C2_AsClaimed ==
    \A k \in DirKeys :
       /\ \A s1 \in press_key(USE_PYNPUT, Cur, k) :
             s1.st = "ok" =>
                \A s2 \in press_key(USE_PYNPUT, s1, k) :
                   /\ s2 = s1
                   /\ Count(s2.calls, "press", k) = 1
       /\ k \notin pressed_keys => release_key(USE_PYNPUT, Cur, k) = {Cur}

\* C2 (amended): two consecutive press_key(k) calls issue exactly one
\* injector press call when k is not held before the first call and none
\* when it is; the second call changes neither pressed_keys nor the calls
\* issued; release_key(k) on a key not held issues no call and changes
\* nothing.
C2_PressIdempotent ==
    \A k \in DirKeys :
       /\ \A s1 \in press_key(USE_PYNPUT, Cur, k) :
             s1.st = "ok" =>
                \A s2 \in press_key(USE_PYNPUT, s1, k) :
                   /\ s2 = s1
                   /\ Len(s2.calls) = Count(s2.calls, "press", k)
                   /\ Count(s2.calls, "press", k) =
                         IF k \in pressed_keys THEN 0 ELSE 1
       /\ k \notin pressed_keys => release_key(USE_PYNPUT, Cur, k) = {Cur}

\* A button-down for a key that was already held has just been handled
\* (the second press_key in a row for that key): nothing was issued.
C2_Witness ==
    /\ ev.type = "JOYBUTTONDOWN"
    /\ ev.a \in 0..3
    /\ Returned
    /\ out = <<>>
    /\ BUTTON_MAPPING[ev.a] \in pressed_keys

\* ------------------------------------------------------------------ C3
\* The calls cs, issued from a state where the keys of em have a press as
\* their last call, alternate per directional key: a press only for a key
\* not in em, a release only for a key in em.
RECURSIVE Alternates(_, _)
Alternates(cs, em) ==
    IF cs = <<>> THEN TRUE
    ELSE LET c == Head(cs)
         IN  IF c.key \notin DirKeys THEN Alternates(Tail(cs), em)
             ELSE IF c.act = "press"
             THEN c.key \notin em /\ Alternates(Tail(cs), em \cup {c.key})
             ELSE c.key \in em /\ Alternates(Tail(cs), em \ {c.key})

\* C3: over any sequence of hat, axis and button events the injector calls
\* issued for a directional key alternate press, release, press, ...,
\* starting with a press.
C3_Alternation ==
    [][pc = "events" => Alternates(out', emitted)]_vars

\* A hat event released a held key and pressed it again.
C3_Witness ==
    /\ ev.type = "JOYHATMOTION"
    /\ \E i, j \in DOMAIN out :
          /\ i < j
          /\ out[i].act = "release"
          /\ out[j].act = "press"
          /\ out[i].key = out[j].key

\* ------------------------------------------------------------------ C4
\* The keys a hat position (x, y) indicates.
HatKeys(x, y) ==
    {k \in DirKeys : \/ k = Up /\ y = 1
                     \/ k = Down /\ y = -1
                     \/ k = Left /\ x = -1
                     \/ k = Right /\ x = 1}

\* C4: after process_hat(x, y) has returned, the held directional keys are
\* exactly those the signs of (x, y) indicate, whatever was held before.
C4_HatAuthoritative ==
    (ev.type = "JOYHATMOTION" /\ Returned) =>
        /\ pressed_keys = HatKeys(ev.a, ev.b)
        /\ ~({Up, Down} \subseteq pressed_keys)
        /\ ~({Left, Right} \subseteq pressed_keys)

\* A hat event released a key that the new position does not indicate
\* (held from an earlier event) and pressed another.
C4_Witness ==
    /\ ev.type = "JOYHATMOTION"
    /\ Returned
    /\ pressed_keys # {}
    /\ \E i \in DOMAIN out :
          out[i].act = "release" /\ out[i].key \notin pressed_keys

\* ------------------------------------------------------------------ C5
\* C5: after process_axis has returned, a vertical value above 0.3 leaves
\* Down held and Up not held, one below -0.3 leaves Up held and Down not
\* held; on the horizontal axis above 0.3 leaves Right held and Left not,
\* below -0.3 leaves Left held and Right not.
C5_AxisExclusive ==
    (ev.type = "JOYAXISMOTION" /\ Returned) =>
        /\ (ev.a = 1 /\ ev.b > deadzone) =>
              Down \in pressed_keys /\ Up \notin pressed_keys
        /\ (ev.a = 1 /\ ev.b < -deadzone) =>
              Up \in pressed_keys /\ Down \notin pressed_keys
        /\ (ev.a = 0 /\ ev.b > deadzone) =>
              Right \in pressed_keys /\ Left \notin pressed_keys
        /\ (ev.a = 0 /\ ev.b < -deadzone) =>
              Left \in pressed_keys /\ Right \notin pressed_keys

\* An axis event reversed a held direction: it pressed one key of the
\* channel and released the opposite one.
C5_Witness ==
    /\ ev.type = "JOYAXISMOTION"
    /\ Returned
    /\ ev.a = 1
    /\ ev.b > deadzone
    /\ Shape(out) = << <<"press", Down>>, <<"release", Up>> >>

\* ------------------------------------------------------------------ C6
\* C6: after process_axis has returned with a value in [-0.3, 0.3], the
\* boundaries included, neither key of the axis's channel is held.
C6_Deadzone ==
    (ev.type = "JOYAXISMOTION" /\ Returned /\ ev.b >= -deadzone /\ ev.b <= deadzone) =>
        /\ ev.a = 1 => Up \notin pressed_keys /\ Down \notin pressed_keys
        /\ ev.a = 0 => Left \notin pressed_keys /\ Right \notin pressed_keys

\* An axis event exactly on the deadzone boundary released a held key of
\* its channel while a key of the other channel stays held.
C6_Witness ==
    /\ ev.type = "JOYAXISMOTION"
    /\ Returned
    /\ ev.a = 0
    /\ ev.b \in {-deadzone, deadzone}
    /\ Len(out) = 1
    /\ out[1].act = "release"
    /\ out[1].key \in {Left, Right}
    /\ pressed_keys # {}

\* ------------------------------------------------------------------ C7
\* C7: 'enter' is never in pressed_keys; a button-down of button 4 or 5 that
\* returns issues exactly a press of 'enter' followed by a release of
\* 'enter' and leaves pressed_keys as it was; a button-up of button 4 or 5
\* issues no call.
C7_ConfirmMomentary ==
    /\ [](Confirm \notin pressed_keys)
    /\ [][(pc = "events" /\ ev'.a \in {4, 5}) =>
            /\ (ev'.type = "JOYBUTTONDOWN" /\ pc' \in {"poll", "events"}) =>
                  /\ Shape(out') = << <<"press", Confirm>>, <<"release", Confirm>> >>
                  /\ pressed_keys' = pressed_keys
            /\ ev'.type = "JOYBUTTONUP" =>
                  /\ out' = <<>>
                  /\ pressed_keys' = pressed_keys
                  /\ emitted' = emitted]_vars

\* A Confirm button-down has been handled while directional keys are held.
C7_Witness ==
    /\ ev.type = "JOYBUTTONDOWN"
    /\ ev.a \in {4, 5}
    /\ Returned
    /\ Len(out) = 2
    /\ pressed_keys # {}

\* ------------------------------------------------------------------ C8
\* C8: for buttons 0..3, mapped to Up, Down, Left, Right: after a
\* button-down the mapped key is held and after a button-up it is not; one
\* injector call (a press, respectively a release, of that key) is issued
\* when the key's held status changes and none when it does not.
C8_DirectionalButtons ==
    [][(pc = "events" /\ ev'.type \in {"JOYBUTTONDOWN", "JOYBUTTONUP"} /\ ev'.a \in 0..3) =>
         LET k == <<Up, Down, Left, Right>>[ev'.a + 1]
             down == ev'.type = "JOYBUTTONDOWN"
         IN  /\ down => k \in pressed_keys'
             /\ ~down => k \notin pressed_keys'
             /\ \A j \in DirKeys \ {k} : j \in pressed_keys' <=> j \in pressed_keys
             /\ IF (k \in pressed_keys') # (k \in pressed_keys)
                THEN Shape(out') = << <<IF down THEN "press" ELSE "release", k>> >>
                ELSE out' = <<>>]_vars

\* A button-up released its key while the last hat or axis event still
\* left another key held.
C8_Witness ==
    /\ ev.type = "JOYBUTTONUP"
    /\ ev.a = 3
    /\ Shape(out) = << <<"release", Right>> >>
    /\ Up \in pressed_keys

\* ------------------------------------------------------------------ C9
\* C9: a drain that runs to its end leaves pressed_keys empty and issues
\* exactly one release call for each key that was held, and no other call.
C9_DrainComplete ==
    [][(pc = "finally" /\ pc' = "quit") =>
         /\ pressed_keys' = {}
         /\ Len(out') = Cardinality(pressed_keys)
         /\ \A k \in pressed_keys : Count(out', "release", k) = 1
         /\ \A i \in DOMAIN out' : out'[i].act = "release"]_vars

\* A drain has released two held keys.
C9_Witness ==
    /\ pc = "quit"
    /\ ev.type = "DRAIN"
    /\ Len(out) = 2
    /\ out[1].key # out[2].key
    /\ pressed_keys = {}

\* ----------------------------------------------------------------- C10
DrainCompleted == pc \in {"quit", "stopped"}
DeviceReleased == pc = "stopped"
Terminated == pc \in {"stopped", "crashed"}

\* C10 as stated: on every path by which the loop is left the drain runs
\* to completion and pygame.quit() follows it: the program never ends with
\* the drain cut short or the device not released.
C10_AsClaimed ==
    /\ DeviceReleased => DrainCompleted
    /\ (left_by # "none" /\ Terminated) => DrainCompleted /\ DeviceReleased

\* ----------------------------------------------------------------- C11
\* The controller events the loop translates.
Events ==
    {Event("JOYHATMOTION", x, y) : x \in HatValues, y \in HatValues}
    \cup {Event("JOYAXISMOTION", axis, value) : axis \in 0..MaxAxis, value \in AxisValues}
    \cup {Event(type, button, 0) : type \in {"JOYBUTTONDOWN", "JOYBUTTONUP"},
                                   button \in 0..MaxButton}

\* The for loop's if/elif chain on event.type.
Dispatch(pynput, s, e) ==
    CASE e.type = "JOYHATMOTION" -> process_hat(pynput, s, e.a, e.b)
      [] e.type = "JOYAXISMOTION" -> process_axis(pynput, s, e.a, e.b)
      [] e.type = "JOYBUTTONDOWN" -> process_button(pynput, s, e.a, TRUE)
      [] e.type = "JOYBUTTONUP" -> process_button(pynput, s, e.a, FALSE)
      [] OTHER -> {s}

Call(fn, key) == [fn |-> fn, key |-> key]

\* The press_key/release_key calls a translator makes for event e, in the
\* order it makes them (the translators branch on the event only).
Calls(e) ==
    CASE e.type = "JOYHATMOTION" ->
           [i \in 1..4 |-> Call("release", HatReleaseOrder[i])]
           \o (IF e.b = 1 THEN <<Call("press", "w")>>
               ELSE IF e.b = -1 THEN <<Call("press", "s")>> ELSE <<>>)
           \o (IF e.a = -1 THEN <<Call("press", "a")>>
               ELSE IF e.a = 1 THEN <<Call("press", "d")>> ELSE <<>>)
      [] e.type = "JOYAXISMOTION" ->
           LET v == IF Abs(e.b) < deadzone THEN 0 ELSE e.b
               neg == IF e.a = 1 THEN "w" ELSE "a"
               pos == IF e.a = 1 THEN "s" ELSE "d"
           IN  IF e.a \notin {0, 1} THEN <<>>
               ELSE IF v < -deadzone THEN <<Call("press", neg), Call("release", pos)>>
               ELSE IF v > deadzone THEN <<Call("press", pos), Call("release", neg)>>
               ELSE <<Call("release", neg), Call("release", pos)>>
      [] e.type = "JOYBUTTONDOWN" ->
           IF e.a \notin DOMAIN BUTTON_MAPPING THEN <<>>
           ELSE IF BUTTON_MAPPING[e.a] = "enter"
           THEN <<Call("press", "enter"), Call("release", "enter")>>
           ELSE <<Call("press", BUTTON_MAPPING[e.a])>>
      [] e.type = "JOYBUTTONUP" ->
           IF e.a \notin DOMAIN BUTTON_MAPPING \/ BUTTON_MAPPING[e.a] = "enter"
           THEN <<>>
           ELSE <<Call("release", BUTTON_MAPPING[e.a])>>
      [] OTHER -> <<>>

\* One press_key or release_key call.
DoCall(pynput, s, c) ==
    IF c.fn = "press" THEN press_key(pynput, s, c.key)
    ELSE release_key(pynput, s, c.key)

\* The calls cs made in order.
RECURSIVE RunCalls(_, _, _)
RunCalls(pynput, S, cs) ==
    IF cs = <<>> THEN S
    ELSE RunCalls(pynput, UNION {DoCall(pynput, s, Head(cs)) : s \in S}, Tail(cs))

\* The translators make exactly the calls of Calls(e).
CallsMatchTranslators ==
    \A e \in Events :
       RunCalls(USE_PYNPUT, {Cur}, Calls(e)) = Dispatch(USE_PYNPUT, Cur, e)

\* The states inside call c, started in s, in which the call has updated
\* pressed_keys and has not yet called the injector (between lines 83 and
\* 85 of press_key, 121 and 123 of release_key); none when the call returns
\* early.
MidCall(s, c) ==
    IF c.key = "enter" THEN {s}
    ELSE IF c.fn = "press"
    THEN IF c.key \in s.pk THEN {} ELSE {[s EXCEPT !.pk = @ \cup {c.key}]}
    ELSE IF c.key \notin s.pk THEN {} ELSE {[s EXCEPT !.pk = @ \ {c.key}]}

\* The states in which KeyboardInterrupt can be raised while the calls cs
\* run from state s: before a call, inside it, or after it.
RECURSIVE InterruptedIn(_, _, _)
InterruptedIn(pynput, s, cs) ==
    IF s.st # "ok" THEN {}
    ELSE IF cs = <<>> THEN {s}
    ELSE {s} \cup MidCall(s, Head(cs))
         \cup UNION {InterruptedIn(pynput, t, Tail(cs)) :
                        t \in DoCall(pynput, s, Head(cs))}

\* Every injector call of the sequence worked.
AllOk(cs) == \A i \in DOMAIN cs : cs[i].res = "ok"

\* Ctrl+C while a translator is running: the KeyboardInterrupt leaves the
\* translator and the loop where it strikes.
InterruptInEvent ==
    /\ pc = "events"
    /\ \E e \in Events :
          \E s \in InterruptedIn(USE_PYNPUT, Cur, Calls(e)) :
             /\ pressed_keys' = s.pk
             /\ out' = s.calls
             /\ emitted' = s.em
             /\ ev' = e
    /\ batch' = batch - 1
    /\ pc' = "finally"
    /\ left_by' = "interrupt"
    /\ UNCHANGED <<USE_PYNPUT, running>>

\* Ctrl+C while the finally block's loop is running: the KeyboardInterrupt
\* leaves the finally block, and pygame.quit() is not reached.
InterruptInDrain ==
    /\ pc = "finally"
    /\ \E order \in Orders(pressed_keys) :
          \E s \in InterruptedIn(USE_PYNPUT, Cur,
                                 [i \in DOMAIN order |-> Call("release", order[i])]) :
             /\ pressed_keys' = s.pk
             /\ out' = s.calls
             /\ emitted' = s.em
    /\ ev' = Event("DRAIN", 0, 0)
    /\ pc' = "crashed"
    /\ UNCHANGED <<USE_PYNPUT, running, batch, left_by>>

\* The program with Ctrl+C arriving at any point and an injector that
\* never fails: every call issued is delivered, so 'emitted' is the set of
\* keys that are down at the OS.
NextIntr ==
    \/ Next /\ AllOk(out')
    \/ InterruptInEvent /\ AllOk(out')
    \/ InterruptInDrain /\ AllOk(out')

SpecIntr == Init /\ [][NextIntr]_vars

\* C11 as stated: with the interrupt arriving at any point, once the
\* process has stopped every directional key whose press was delivered has
\* had a later release delivered (no key is left down).
C11_AsClaimed ==
    Terminated => emitted \cap DirKeys = {}

\* ----------------------------------------------------------------- C12
\* The last step translated a controller event.
EventStep ==
    ev.type \in {"JOYHATMOTION", "JOYAXISMOTION", "JOYBUTTONDOWN", "JOYBUTTONUP"}

\* C12 as stated: under either backend a failed injector call does not
\* abort the loop: after an event whose translation had a failing call the
\* loop is still running and goes on to the next event or poll.
C12_AsClaimed ==
    (EventStep /\ \E i \in DOMAIN out : out[i].res # "ok") =>
        pc \in {"poll", "events"}

\* ----------------------------------------------------------------- C13
\* The failure of call c reached the operator: printed by the except
\* clause, or as the traceback of the uncaught exception.
Reported(c) == c.logged \/ c.res = "oserror"

\* C13 as stated: every failed injector call is reported, under either
\* backend.
C13_AsClaimed ==
    \A i \in DOMAIN out : out[i].res # "ok" => Reported(out[i])

\* ----------------------------------------------------------------- C14
\* C14 as stated: after a press_key call whose injector press failed, the
\* key is not in pressed_keys.
C14_AsClaimed ==
    (ev.type = "JOYBUTTONDOWN" /\ ev.a \in 0..3 /\ Len(out) = 1) =>
        (out[1].res # "ok" => out[1].key \notin pressed_keys)

\* ----------------------------------------------------------------- C15
\* What a translation shows at the level of the script's key names: the
\* pressed_keys it ends with and the (action, key) calls it made.
VirtualView(S) == {[pk |-> s.pk, calls |-> Shape(s.calls)] : s \in S}

\* What a translation does at the OS: the (action, OS key) calls it made.
OsView(S) ==
    {[i \in DOMAIN s.calls |-> <<s.calls[i].act, s.calls[i].os>>] : s \in S}

\* C15 as stated: from every state and for every event, the pynput backend
\* and the xdotool backend end in the same pressed_keys and make the same
\* sequence of press/release calls on the same keys.
C15_AsClaimed ==
    \A e \in Events :
       /\ VirtualView(Dispatch(TRUE, Cur, e)) = VirtualView(Dispatch(FALSE, Cur, e))
       /\ OsView(Dispatch(TRUE, Cur, e)) = OsView(Dispatch(FALSE, Cur, e))

\* ----------------------------------------------------------------- C16
\* The event has no mapping: an axis other than 0 and 1, a button outside
\* BUTTON_MAPPING.
Unmapped(e) ==
    \/ e.type = "JOYAXISMOTION" /\ e.a \notin {0, 1}
    \/ e.type \in {"JOYBUTTONDOWN", "JOYBUTTONUP"} /\ e.a \notin 0..5

\* C16: an axis event with an index other than 0 or 1 and a button event
\* with an index outside 0..5 leave pressed_keys unchanged and issue no
\* injector call, from every state.
C16_UnmappedNoOp ==
    [][(pc = "events" /\ Unmapped(ev')) =>
         /\ pressed_keys' = pressed_keys
         /\ emitted' = emitted
         /\ out' = <<>>
         /\ pc' \in {"poll", "events"}]_vars

\* An axis-2 event at full deflection has been handled while keys are
\* held, and nothing was issued.
C16_Witness ==
    /\ ev.type = "JOYAXISMOTION"
    /\ ev.a = 2
    /\ ev.b = 10
    /\ out = <<>>
    /\ Left \in pressed_keys

\* ----------------------------------------------------------------- C17
\* C17 as stated: under either backend the press and the release of a key
\* name the same OS-level key.
C17_AsClaimed ==
    \A i, j \in DOMAIN out :
       (i < j /\ out[i].key = out[j].key
              /\ out[i].act = "press" /\ out[j].act = "release") =>
          out[i].os = out[j].os

\* ----------------------------------------------------------------- C18
\* C18 as stated, for the runs that end: once a QUIT event has been
\* handled the program ends in the stopped state, after pygame.quit(),
\* with pressed_keys empty.
C18_AsClaimed ==
    (~running /\ Terminated) => (pc = "stopped" /\ pressed_keys = {})

\* ----------------------------------------------------------------- C19
\* C19: within one process_hat call no release follows a press; when the
\* call returns, a key held before and indicated by the new position got
\* exactly a release and then a press, and a key neither held before nor
\* indicated got no call.
C19_ResetThenSet ==
    [][(pc = "events" /\ ev'.type = "JOYHATMOTION") =>
         /\ \A i, j \in DOMAIN out' :
               i < j => ~(out'[i].act = "press" /\ out'[j].act = "release")
         /\ pc' \in {"poll", "events"} =>
               \A k \in DirKeys :
                  LET held == k \in pressed_keys
                      ind  == k \in HatKeys(ev'.a, ev'.b)
                  IN  /\ (held /\ ind) =>
                            /\ Count(out', "release", k) = 1
                            /\ Count(out', "press", k) = 1
                      /\ (~held /\ ~ind) =>
                            /\ Count(out', "release", k) = 0
                            /\ Count(out', "press", k) = 0]_vars

\* A hat event repeated the position already held: Up was released and
\* pressed again, and nothing else happened.
C19_Witness ==
    /\ ev.type = "JOYHATMOTION"
    /\ Returned
    /\ ev.a = 0
    /\ ev.b = 1
    /\ Shape(out) = << <<"release", Up>>, <<"press", Up>> >>

\* ----------------------------------------------------------------- C20
\* C20: when process_axis reverses a channel (the opposite key held, the
\* new one not), the first call issued is the press of the new direction;
\* when the call returns, the release of the opposite key has followed it
\* and only the new direction is held.
C20_PressBeforeRelease ==
    [][(pc = "events" /\ ev'.type = "JOYAXISMOTION" /\ ev'.a \in {0, 1}
          /\ Abs(ev'.b) > deadzone) =>
         LET neg == IF ev'.a = 1 THEN Up ELSE Left
             pos == IF ev'.a = 1 THEN Down ELSE Right
             new == IF ev'.b < 0 THEN neg ELSE pos
             old == IF ev'.b < 0 THEN pos ELSE neg
         IN  (old \in pressed_keys /\ new \notin pressed_keys) =>
                /\ out' # <<>>
                /\ <<out'[1].act, out'[1].key>> = <<"press", new>>
                /\ pc' \in {"poll", "events"} =>
                      /\ Shape(out') = << <<"press", new>>, <<"release", old>> >>
                      /\ new \in pressed_keys'
                      /\ old \notin pressed_keys']_vars

\* A horizontal reversal has been handled: Left pressed, then Right
\* released.
C20_Witness ==
    /\ ev.type = "JOYAXISMOTION"
    /\ Returned
    /\ ev.a = 0
    /\ ev.b < -deadzone
    /\ Shape(out) = << <<"press", Left>>, <<"release", Right>> >>
    /\ Left \in pressed_keys
    /\ Right \notin pressed_keys

====
